---- MODULE Spec2Model ----
(***************************************************************************)
(* The CMUDict engine of cmudict_loader.py: the loader that builds the     *)
(* word -> pronunciations index and the query methods over it.             *)
(*                                                                         *)
(* A Python str is modelled as a sequence of one-character strings, so     *)
(* that lower(), strip(), split(), the regular expressions and the         *)
(* indexing p[-1] act on characters as they do in the code.  Optional[T]   *)
(* is modelled as a sequence of length 0 (None) or 1 (the value).          *)
(***************************************************************************)
EXTENDS Integers, Sequences, FiniteSets, TLC

VARIABLES file, source, pronunciations, pc, result

vars == <<file, source, pronunciations, pc, result>>

(***************************************************************************)
(* Bounds of the model.                                                    *)
(***************************************************************************)
\* longest dictionary file, in lines
MaxLines == 3
\* largest max_results a caller passes (0..MaxResults)
MaxResults == 2

\* default of max_results in find_rhymes_by_phonemes, used by lookup
DefaultMaxResults == 10

(***************************************************************************)
(* Python values.                                                          *)
(***************************************************************************)
None == <<>>
Some(x) == <<x>>

\* result before any call: the call's name and max_results, its word or
\* pattern, whether it raised, and what it returned
NoResult == [op |-> "none", max |-> 0, word |-> <<>>, raised |-> FALSE, ret |-> None]

\* the lines a dictionary file is made of
SourceLines ==
    { <<"a", "b", " ", "A", "E", "1", " ", "T">>,                  \* 'ab AE1 T'
      <<"a", ".", " ", "K", " ", "A", "E", "1", " ", "T">>,        \* 'a. K AE1 T'
      <<"A", "B", "(", "2", ")", " ", "A", "H", "0", " ", "T", " ", "A", "H", "0">>,
                                                                   \* 'AB(2) AH0 T AH0'
      <<"b", " ", "A", "H", "1", " ", "#", "x">>,                  \* 'b AH1 #x'
      <<"a", " ", "1", "K", " ", "A", "H", "0">>,                  \* 'a 1K AH0'
      <<" ", "(", "2", ")", "\t", "T">>,                           \* ' (2)<TAB>T'
      <<"a", "(", "2", ")", "(", "3", ")", " ", "A", "H", "0">>,   \* 'a(2)(3) AH0'
      <<"a", "b">>,                                                \* 'ab'
      <<"#", "c">> }                                               \* '#c'

\* the words callers ask about
QueryWords ==
    { <<"a", "b">>, <<"A", "B">>, <<" ", "a", "b", " ">>, <<"a", ".">>,
      <<"a">>, <<"b">>, <<>> }

\* the wildcard patterns callers search for; none of them holds a ")"
QueryPatterns ==
    { <<"*">>, <<"A", "*">>, <<"*", "b">>, <<"a", "*", "B">>, <<"a", ".">>,
      <<"a", "b">>, <<"b">>, <<".">>, <<"(">>, <<"a", "(", "*">>, <<>> }

SeqsUpTo(S, n) == UNION { [1..k -> S] : k \in 0..n }

(***************************************************************************)
(* str methods.                                                            *)
(***************************************************************************)
\* str.lower() on one character
LowerChar(c) ==
    CASE c = "A" -> "a" [] c = "B" -> "b" [] c = "E" -> "e" [] c = "H" -> "h"
      [] c = "K" -> "k" [] c = "T" -> "t" [] OTHER -> c

\* str.lower()
Lower(s) == [i \in 1..Len(s) |-> LowerChar(s[i])]

\* the characters str.strip() and str.split() treat as whitespace
IsSpace(c) == c \in {" ", "\t"}

\* \d of the re module
IsDigit(c) == c \in {"0", "1", "2", "3"}

RECURSIVE LStrip(_)
LStrip(s) == IF s # <<>> /\ IsSpace(Head(s)) THEN LStrip(Tail(s)) ELSE s

RECURSIVE RStrip(_)
RStrip(s) ==
    IF s # <<>> /\ IsSpace(s[Len(s)]) THEN RStrip(SubSeq(s, 1, Len(s) - 1)) ELSE s

\* str.strip()
Strip(s) == RStrip(LStrip(s))

\* str.split() with no argument: the maximal runs of non-whitespace characters
RECURSIVE SplitFrom(_, _, _)
SplitFrom(s, cur, acc) ==
    IF s = <<>> THEN (IF cur = <<>> THEN acc ELSE Append(acc, cur))
    ELSE IF IsSpace(Head(s))
         THEN SplitFrom(Tail(s), <<>>, IF cur = <<>> THEN acc ELSE Append(acc, cur))
         ELSE SplitFrom(Tail(s), Append(cur, Head(s)), acc)

Split(s) == SplitFrom(s, <<>>, <<>>)

\* line.split('#')[0]: the text before the first '#'
RECURSIVE BeforeHash(_)
BeforeHash(s) ==
    IF s = <<>> \/ Head(s) = "#" THEN <<>> ELSE <<Head(s)>> \o BeforeHash(Tail(s))

\* ' '.join(parts)
RECURSIVE Join(_)
Join(parts) ==
    IF parts = <<>> THEN <<>>
    ELSE IF Len(parts) = 1 THEN parts[1]
    ELSE parts[1] \o <<" ">> \o Join(Tail(parts))

\* the number of trailing digits of s[1..n]
RECURSIVE TrailingDigits(_, _)
TrailingDigits(s, n) ==
    IF n >= 1 /\ IsDigit(s[n]) THEN 1 + TrailingDigits(s, n - 1) ELSE 0

\* re.sub(r'\(\d+\)$', '', word): drop one "(digits)" that ends the word
StripVariant(word) ==
    LET n == Len(word)
        d == IF n >= 1 /\ word[n] = ")" THEN TrailingDigits(word, n - 1) ELSE 0
    IN  IF d >= 1 /\ n - d - 1 >= 1 /\ word[n - d - 1] = "("
        THEN SubSeq(word, 1, n - d - 2)
        ELSE word

(***************************************************************************)
(* The index: a dict in insertion order, word -> list of pronunciations.   *)
(***************************************************************************)
Keys(d) == { d[i].word : i \in 1..Len(d) }

KeyIndex(d, word) == CHOOSE i \in 1..Len(d) : d[i].word = word

\* dict.get(word): the stored list, or None
DictGet(d, word) == IF word \in Keys(d) THEN Some(d[KeyIndex(d, word)].prons) ELSE None

\* the dict after self.pronunciations[word]: the defaultdict stores an empty
\* list under a key it does not hold
DictAfterGetitem(d, word) ==
    IF word \in Keys(d) THEN d ELSE Append(d, [word |-> word, prons |-> <<>>])

\* the dict after self.pronunciations.get(word): get stores nothing
DictAfterGet(d, word) == d

\* "not pronunciations": None and the empty list are both false
IsFalsy(ps) == ps = None \/ ps[1] = <<>>

\* the store with "insert(0, phonemes)" in place of append: the newest
\* pronunciation of a word comes first
DictAppend_Prepending(d, word, phonemes) ==
    IF word \in Keys(d)
    THEN [d EXCEPT ![KeyIndex(d, word)].prons = <<phonemes>> \o @]
    ELSE Append(d, [word |-> word, prons |-> <<phonemes>>])

\* self.pronunciations[word].append(phonemes) on the defaultdict(list)
DictAppend(d, word, phonemes) ==
    IF word \in Keys(d)
    THEN [d EXCEPT ![KeyIndex(d, word)].prons = Append(@, phonemes)]
    ELSE Append(d, [word |-> word, prons |-> <<phonemes>>])

\* the loop with "len(parts) < 1" as the test: a line holding a word and no
\* phoneme is stored too
LoadedLine_KeepingBareWords(d, raw) ==
    LET line  == Strip(BeforeHash(raw))
        parts == Split(line)
    IN  IF line = <<>> THEN d
        ELSE IF Len(parts) < 1 THEN d
        ELSE DictAppend(d, StripVariant(Lower(parts[1])), Tail(parts))

\* one iteration of the loop of load_dictionary
LoadedLine(d, raw) ==
    LET line  == Strip(BeforeHash(raw))
        parts == Split(line)
    IN  IF line = <<>> THEN d
        ELSE IF Len(parts) < 2 THEN d
        ELSE DictAppend(d, StripVariant(Lower(parts[1])), Tail(parts))

(***************************************************************************)
(* Phoneme analysis.                                                       *)
(***************************************************************************)
\* ARPA_TO_IPA, restricted to the base symbols the source lines use; an IPA
\* character is written as the name of its code point
ARPA_TO_IPA ==
    ( <<"A", "E">> :> <<"U+00E6">> ) @@
    ( <<"A", "H">> :> <<"U+028C">> ) @@
    ( <<"K">> :> <<"k">> ) @@
    ( <<"T">> :> <<"t">> )

\* re.sub(r"\d", "", phoneme)
RECURSIVE StripDigits(_)
StripDigits(p) ==
    IF p = <<>> THEN <<>>
    ELSE IF IsDigit(Head(p)) THEN StripDigits(Tail(p))
    ELSE <<Head(p)>> \o StripDigits(Tail(p))

\* ARPA_TO_IPA.get(base, base.lower())
IpaSymbol(phoneme) ==
    LET base == StripDigits(phoneme)
    IN  IF base \in DOMAIN ARPA_TO_IPA THEN ARPA_TO_IPA[base] ELSE Lower(base)

arpa_to_ipa(phonemes) ==
    <<"/">> \o Join([i \in 1..Len(phonemes) |-> IpaSymbol(phonemes[i])]) \o <<"/">>

\* re.search(r"[012]", p): a stress digit anywhere in the token
HasStress(p) == \E i \in 1..Len(p) : p[i] \in {"0", "1", "2"}

\* the count with "p[-1] in '012'" as the test: only a final digit counts
RECURSIVE count_syllables_FinalDigitOnly(_)
count_syllables_FinalDigitOnly(phonemes) ==
    IF phonemes = <<>> THEN 0
    ELSE (IF Head(phonemes)[Len(Head(phonemes))] \in {"0", "1", "2"} THEN 1 ELSE 0)
         + count_syllables_FinalDigitOnly(Tail(phonemes))

\* sum(1 for p in phonemes if re.search(r"[012]", p))
RECURSIVE count_syllables_in_pronunciation(_)
count_syllables_in_pronunciation(phonemes) ==
    IF phonemes = <<>> THEN 0
    ELSE (IF HasStress(Head(phonemes)) THEN 1 ELSE 0)
         + count_syllables_in_pronunciation(Tail(phonemes))

\* the scan run forwards, "for i in range(len(phonemes))": it stops at the
\* first stressed token instead of the last
first_stress_idx(phonemes, i) ==
    IF \E k \in 1..i : HasStress(phonemes[k])
    THEN CHOOSE k \in 1..i :
            HasStress(phonemes[k]) /\ \A j \in 1..(k - 1) : ~HasStress(phonemes[j])
    ELSE 0

\* the loop "for i in range(len(phonemes) - 1, -1, -1)"; positions count from 1
\* here, so 0 stands for the code's -1
RECURSIVE last_stress_idx(_, _)
last_stress_idx(phonemes, i) ==
    IF i < 1 THEN 0
    ELSE IF HasStress(phonemes[i]) THEN i
    ELSE last_stress_idx(phonemes, i - 1)

get_rhyming_part_from_phonemes(phonemes) ==
    LET idx == last_stress_idx(phonemes, Len(phonemes))
    IN  IF idx = 0 THEN None ELSE Some(SubSeq(phonemes, idx, Len(phonemes)))

(***************************************************************************)
(* Rhyme matcher.                                                          *)
(***************************************************************************)
\* the inner loop comparing the rhyming parts with their digits removed, so
\* that stress is ignored
SomePronRhymes_IgnoringStress(other_prons, rhyme_part) ==
    \E k \in 1..Len(other_prons) :
       LET other_rhyme == get_rhyming_part_from_phonemes(other_prons[k])
       IN  /\ other_rhyme # None
           /\ Len(other_rhyme[1]) = Len(rhyme_part[1])
           /\ \A j \in 1..Len(other_rhyme[1]) :
                 StripDigits(other_rhyme[1][j]) = StripDigits(rhyme_part[1][j])

\* the inner loop "for other_pron in other_prons": does it reach a
\* pronunciation whose rhyming part equals rhyme_part
RECURSIVE SomePronRhymes(_, _)
SomePronRhymes(other_prons, rhyme_part) ==
    IF other_prons = <<>> THEN FALSE
    ELSE IF get_rhyming_part_from_phonemes(Head(other_prons)) = rhyme_part THEN TRUE
    ELSE SomePronRhymes(Tail(other_prons), rhyme_part)

\* the outer loop "for other_word, other_prons in self.pronunciations.items()"
\* from entry i on, with the rhymes collected so far (seen holds the same words)
RECURSIVE RhymeScan(_, _, _, _, _, _)
RhymeScan(d, word, rhyme_part, max_results, i, rhymes) ==
    IF i > Len(d) THEN rhymes
    ELSE IF d[i].word = Lower(word)
         THEN RhymeScan(d, word, rhyme_part, max_results, i + 1, rhymes)
         ELSE LET seen  == { rhymes[k] : k \in 1..Len(rhymes) }
                  added == IF /\ SomePronRhymes(d[i].prons, rhyme_part)
                              /\ d[i].word \notin seen
                           THEN Append(rhymes, d[i].word)
                           ELSE rhymes
              IN  IF Len(added) >= max_results THEN added
                  ELSE RhymeScan(d, word, rhyme_part, max_results, i + 1, added)

find_rhymes_by_phonemes(d, word, phonemes, max_results) ==
    LET rhyme_part == get_rhyming_part_from_phonemes(phonemes)
    IN  IF rhyme_part = None THEN <<>>
        ELSE RhymeScan(d, word, rhyme_part, max_results, 1, <<>>)

(***************************************************************************)
(* Query facade.                                                           *)
(***************************************************************************)
\* the loop with every record built from pronunciations[0]
lookup_FromFirstPronunciation(d, word) ==
    LET w  == Strip(Lower(word))
        ps == DictGet(d, w)
    IN  IF IsFalsy(ps) THEN None
        ELSE Some([i \in 1..Len(ps[1]) |->
                     [arpa      |-> Join(ps[1][1]),
                      ipa       |-> arpa_to_ipa(ps[1][1]),
                      syllables |-> count_syllables_in_pronunciation(ps[1][1]),
                      rhymes    |-> find_rhymes_by_phonemes(d, w, ps[1][1],
                                                            DefaultMaxResults)]])

lookup(d, word) ==
    LET w  == Strip(Lower(word))
        ps == DictGet(d, w)
    IN  IF IsFalsy(ps) THEN None
        ELSE Some([i \in 1..Len(ps[1]) |->
                     [arpa      |-> Join(ps[1][i]),
                      ipa       |-> arpa_to_ipa(ps[1][i]),
                      syllables |-> count_syllables_in_pronunciation(ps[1][i]),
                      rhymes    |-> find_rhymes_by_phonemes(d, w, ps[1][i],
                                                            DefaultMaxResults)]])

count_syllables(d, word) ==
    LET ps == DictGet(d, Strip(Lower(word)))
    IN  IF IsFalsy(ps) THEN None
        ELSE Some(count_syllables_in_pronunciation(ps[1][1]))

get_rhyming_part(d, word) ==
    LET ps == DictGet(d, Strip(Lower(word)))
    IN  IF IsFalsy(ps) THEN None
        ELSE LET rhyme_part == get_rhyming_part_from_phonemes(ps[1][1])
             IN  IF rhyme_part = None THEN None ELSE Some(Join(rhyme_part[1]))

find_rhymes(d, word, max_results) ==
    LET ps == DictGet(d, Strip(Lower(word)))
    IN  IF IsFalsy(ps) THEN <<>>
        ELSE find_rhymes_by_phonemes(d, word, ps[1][1], max_results)

\* [p[-1] for p in phonemes if p[-1] in '012']
RECURSIVE StressDigits(_)
StressDigits(phonemes) ==
    IF phonemes = <<>> THEN <<>>
    ELSE LET p == Head(phonemes)
         IN  (IF p[Len(p)] \in {"0", "1", "2"} THEN << <<p[Len(p)]>> >> ELSE <<>>)
             \o StressDigits(Tail(phonemes))

get_stress_pattern(d, word) ==
    LET ps == DictGet(d, Strip(Lower(word)))
    IN  IF IsFalsy(ps) THEN None ELSE Some(Join(StressDigits(ps[1][1])))

get_phonemes_readable(d, word) ==
    LET ps == DictGet(d, Strip(Lower(word)))
    IN  IF IsFalsy(ps) THEN None ELSE Some(Join(ps[1][1]))

\* word.lower() in self.pronunciations
word_exists(d, word) == Lower(word) \in Keys(d)

(***************************************************************************)
(* Pattern search.  The regular expressions are those that arise from      *)
(* QueryPatterns: ordinary characters, ".", the ".*" that replaces "*",    *)
(* and "(".                                                                *)
(***************************************************************************)
\* pattern.replace('*', '.*')
RECURSIVE ReplaceStar(_)
ReplaceStar(pattern) ==
    IF pattern = <<>> THEN <<>>
    ELSE (IF Head(pattern) = "*" THEN <<".", "*">> ELSE <<Head(pattern)>>)
         \o ReplaceStar(Tail(pattern))

\* re.compile raises re.error ("missing ), unterminated subpattern") when a
\* "(" is never closed; with no ")" in the patterns, every "(" is unclosed
re_compile_fails(regex_pattern) ==
    \E i \in 1..Len(regex_pattern) : regex_pattern[i] = "("

\* one regex atom against one character, under re.IGNORECASE: "." is any
\* character (no key holds a newline), any other atom is itself in either case
AtomMatches(atom, c) == atom = "." \/ LowerChar(atom) = LowerChar(c)

\* regex.match(word) for '^' + regex_pattern + '$': the whole word is in the
\* language of regex_pattern, an atom followed by "*" repeating zero or more times
RECURSIVE RegexMatches(_, _)
RegexMatches(r, s) ==
    IF r = <<>> THEN s = <<>>
    ELSE IF Len(r) >= 2 /\ r[2] = "*"
         THEN \E k \in 0..Len(s) :
                 /\ \A j \in 1..k : AtomMatches(r[1], s[j])
                 /\ RegexMatches(SubSeq(r, 3, Len(r)), SubSeq(s, k + 1, Len(s)))
         ELSE /\ s # <<>>
              /\ AtomMatches(r[1], s[1])
              /\ RegexMatches(Tail(r), Tail(s))

\* the loop "for word in self.pronunciations" from entry i on
RECURSIVE PatternScan(_, _, _, _, _)
PatternScan(d, regex_pattern, max_results, i, matches) ==
    IF i > Len(d) THEN matches
    ELSE IF RegexMatches(regex_pattern, d[i].word)
         THEN LET added == Append(matches, d[i].word)
              IN  IF Len(added) >= max_results THEN added
                  ELSE PatternScan(d, regex_pattern, max_results, i + 1, added)
         ELSE PatternScan(d, regex_pattern, max_results, i + 1, matches)

\* the outcome of search_by_pattern: raised, or the list returned
search_by_pattern(d, pattern, max_results) ==
    LET regex_pattern == ReplaceStar(pattern)
    IN  IF re_compile_fails(regex_pattern)
        THEN [raised |-> TRUE, ret |-> <<>>]
        ELSE [raised |-> FALSE,
              ret    |-> PatternScan(d, regex_pattern, max_results, 1, <<>>)]

(***************************************************************************)
(* The engine: load, then queries in any order.  file is the text at       *)
(* dict_path and source the lines of it not yet read; pc is "load" while   *)
(* __init__ runs, "ready" between calls and "returned" when a call has     *)
(* returned; result records that call and what it returned.                *)
(***************************************************************************)
Init ==
    /\ file \in SeqsUpTo(SourceLines, MaxLines)
    /\ source = file
    /\ pronunciations = <<>>
    /\ pc = "load"
    /\ result = NoResult

\* load_dictionary reads the next line of the file
LoadLine ==
    /\ pc = "load"
    /\ source # <<>>
    /\ pronunciations' = LoadedLine(pronunciations, Head(source))
    /\ source' = Tail(source)
    /\ UNCHANGED <<file, pc, result>>

\* the file is exhausted: __init__ returns
LoadDone ==
    /\ pc = "load"
    /\ source = <<>>
    /\ pc' = "ready"
    /\ UNCHANGED <<file, source, pronunciations, result>>

Returned(op, word, max, ret) ==
    [op |-> op, max |-> max, word |-> word, raised |-> FALSE, ret |-> ret]

Lookup ==
    /\ pc = "ready"
    /\ \E word \in QueryWords :
          /\ result' = Returned("lookup", word, 0, lookup(pronunciations, word))
          /\ pronunciations' = DictAfterGet(pronunciations, Strip(Lower(word)))
    /\ pc' = "returned"
    /\ UNCHANGED <<file, source>>

WordExists ==
    /\ pc = "ready"
    /\ \E word \in QueryWords :
          result' = Returned("word_exists", word, 0, word_exists(pronunciations, word))
    /\ pc' = "returned"
    /\ UNCHANGED <<file, source, pronunciations>>

CountSyllables ==
    /\ pc = "ready"
    /\ \E word \in QueryWords :
          /\ result' = Returned("count_syllables", word, 0,
                                count_syllables(pronunciations, word))
          /\ pronunciations' = DictAfterGet(pronunciations, Strip(Lower(word)))
    /\ pc' = "returned"
    /\ UNCHANGED <<file, source>>

GetStressPattern ==
    /\ pc = "ready"
    /\ \E word \in QueryWords :
          /\ result' = Returned("get_stress_pattern", word, 0,
                                get_stress_pattern(pronunciations, word))
          /\ pronunciations' = DictAfterGet(pronunciations, Strip(Lower(word)))
    /\ pc' = "returned"
    /\ UNCHANGED <<file, source>>

GetRhymingPart ==
    /\ pc = "ready"
    /\ \E word \in QueryWords :
          /\ result' = Returned("get_rhyming_part", word, 0,
                                get_rhyming_part(pronunciations, word))
          /\ pronunciations' = DictAfterGet(pronunciations, Strip(Lower(word)))
    /\ pc' = "returned"
    /\ UNCHANGED <<file, source>>

GetPhonemesReadable ==
    /\ pc = "ready"
    /\ \E word \in QueryWords :
          /\ result' = Returned("get_phonemes_readable", word, 0,
                                get_phonemes_readable(pronunciations, word))
          /\ pronunciations' = DictAfterGet(pronunciations, Strip(Lower(word)))
    /\ pc' = "returned"
    /\ UNCHANGED <<file, source>>

FindRhymes ==
    /\ pc = "ready"
    /\ \E word \in QueryWords, max_results \in 0..MaxResults :
          /\ result' = Returned("find_rhymes", word, max_results,
                                find_rhymes(pronunciations, word, max_results))
          /\ pronunciations' = DictAfterGet(pronunciations, Strip(Lower(word)))
    /\ pc' = "returned"
    /\ UNCHANGED <<file, source>>

SearchByPattern ==
    /\ pc = "ready"
    /\ \E pattern \in QueryPatterns, max_results \in 0..MaxResults :
          LET out == search_by_pattern(pronunciations, pattern, max_results)
          IN  result' = [op |-> "search_by_pattern", max |-> max_results,
                         word |-> pattern, raised |-> out.raised, ret |-> out.ret]
    /\ pc' = "returned"
    /\ UNCHANGED <<file, source, pronunciations>>

\* the caller takes the returned value and is free to call again
Return ==
    /\ pc = "returned"
    /\ pc' = "ready"
    /\ result' = NoResult
    /\ UNCHANGED <<file, source, pronunciations>>

Next ==
    \/ LoadLine
    \/ LoadDone
    \/ Lookup
    \/ WordExists
    \/ CountSyllables
    \/ GetStressPattern
    \/ GetRhymingPart
    \/ GetPhonemesReadable
    \/ FindRhymes
    \/ SearchByPattern
    \/ Return

Spec == Init /\ [][Next]_vars

(***************************************************************************)
(* The notions the properties are stated in.                               *)
(***************************************************************************)
\* a call has returned (or raised) and result holds its outcome
Called(op) == pc = "returned" /\ result.op = op

\* the lowercase-trimmed form of a query string
Normalized(w) == Strip(Lower(w))

\* a token carries stress: one of its characters is 0, 1 or 2
CarriesStress(tok) == \E i \in DOMAIN tok : tok[i] \in {"0", "1", "2"}

\* the positions of the tokens of p that carry stress
StressedPositions(p) == { i \in DOMAIN p : CarriesStress(p[i]) }

\* the rhyme key of a pronunciation: the suffix from the rightmost token that
\* carries stress, absent when no token does
RhymeKey(p) ==
    IF StressedPositions(p) = {} THEN None
    ELSE LET m == CHOOSE i \in StressedPositions(p) :
                      \A j \in StressedPositions(p) : j <= i
         IN  Some(SubSeq(p, m, Len(p)))

\* the stored pronunciations of a key of the index
PronsOf(word) == pronunciations[KeyIndex(pronunciations, word)].prons

\* the words of a returned list, as a set
Elems(list) == { list[i] : i \in DOMAIN list }

\* the whole key matches the wildcard pattern: "*" is any run of characters,
\* every other character is itself, in either letter case
RECURSIVE GlobMatches(_, _)
GlobMatches(pattern, key) ==
    IF pattern = <<>> THEN key = <<>>
    ELSE IF Head(pattern) = "*"
         THEN \E k \in 0..Len(key) :
                 GlobMatches(Tail(pattern), SubSeq(key, k + 1, Len(key)))
         ELSE /\ key # <<>>
              /\ LowerChar(Head(pattern)) = LowerChar(Head(key))
              /\ GlobMatches(Tail(pattern), Tail(key))

Min(a, b) == IF a <= b THEN a ELSE b

(***************************************************************************)
(* C1.  find_rhymes(word, N) and search_by_pattern(pattern, N) return at   *)
(* most N words, for every N, N = 0 included.                              *)
(***************************************************************************)
C1_CapRespected ==
    (pc = "returned" /\ result.op \in {"find_rhymes", "search_by_pattern"}
        /\ ~result.raised)
    => Len(result.ret) <= result.max

(***************************************************************************)
(* C2.  When the lowercase-trimmed form of the query string is a key of    *)
(* the index, find_rhymes does not return that key: no word is among its   *)
(* own rhymes.                                                             *)
(***************************************************************************)
C2_NotOwnRhyme ==
    (Called("find_rhymes") /\ Normalized(result.word) \in Keys(pronunciations))
    => Normalized(result.word) \notin Elems(result.ret)

(***************************************************************************)
(* C3.  Normalization idempotence: every single-word query returns for w   *)
(* what it returns for the lowercase-trimmed form of w.                    *)
(***************************************************************************)
SingleWordOps ==
    { "lookup", "word_exists", "count_syllables", "get_stress_pattern",
      "get_rhyming_part", "get_phonemes_readable", "find_rhymes" }

\* what the single-word query op returns for word on the loaded index
Answer(op, word, max_results) ==
    CASE op = "lookup" -> lookup(pronunciations, word)
      [] op = "word_exists" -> word_exists(pronunciations, word)
      [] op = "count_syllables" -> count_syllables(pronunciations, word)
      [] op = "get_stress_pattern" -> get_stress_pattern(pronunciations, word)
      [] op = "get_rhyming_part" -> get_rhyming_part(pronunciations, word)
      [] op = "get_phonemes_readable" -> get_phonemes_readable(pronunciations, word)
      [] op = "find_rhymes" -> find_rhymes(pronunciations, word, max_results)

C3_NormalizationIdempotent ==
    (pc = "returned" /\ result.op \in SingleWordOps)
    => result.ret = Answer(result.op, Normalized(result.word), result.max)

(***************************************************************************)
(* C4.  Rhyme soundness: every word B that find_rhymes returns for a word  *)
(* A of the index has a stored pronunciation whose rhyme key is, token for *)
(* token and stress digits included, the rhyme key of A's first            *)
(* pronunciation.                                                          *)
(***************************************************************************)
C4_RhymeSoundness ==
    (Called("find_rhymes") /\ Normalized(result.word) \in Keys(pronunciations))
    => \A B \in Elems(result.ret) :
          /\ B \in Keys(pronunciations)
          /\ \E i \in DOMAIN PronsOf(B) :
                /\ RhymeKey(PronsOf(B)[i]) # None
                /\ RhymeKey(PronsOf(B)[i]) = RhymeKey(PronsOf(Normalized(result.word))[1])

\* find_rhymes has returned a word whose first pronunciation does not rhyme
\* with the query word and whose later one does
C4_Witness ==
    /\ Called("find_rhymes")
    /\ Normalized(result.word) \in Keys(pronunciations)
    /\ \E B \in Elems(result.ret) :
          /\ B # Normalized(result.word)
          /\ Len(PronsOf(B)) >= 2
          /\ RhymeKey(PronsOf(B)[1]) # RhymeKey(PronsOf(Normalized(result.word))[1])

(***************************************************************************)
(* C5.  search_by_pattern returns a key only if the whole key matches the  *)
(* pattern read as a wildcard pattern: "*" is any run of characters and    *)
(* every other character, "." included, matches only itself.               *)
(***************************************************************************)
C5_LiteralMatch ==
    (Called("search_by_pattern") /\ ~result.raised)
    => \A key \in Elems(result.ret) : GlobMatches(result.word, key)

(***************************************************************************)
(* C6.  search_by_pattern never fails: whatever the pattern and            *)
(* max_results, the call ends with a list and not with an error.           *)
(***************************************************************************)
C6_NeverFails == Called("search_by_pattern") => ~result.raised

(***************************************************************************)
(* C7.  Pattern search totality: search_by_pattern("*", N) returns         *)
(* min(N, number of keys) words, all distinct.                             *)
(***************************************************************************)
C7_StarTotality ==
    (Called("search_by_pattern") /\ result.word = <<"*">>)
    => /\ ~result.raised
       /\ Len(result.ret) = Min(result.max, Len(pronunciations))
       /\ Cardinality(Elems(result.ret)) = Len(result.ret)

(***************************************************************************)
(* C8.  For a word with no "*" in it, search_by_pattern(word, 1) returns   *)
(* the one-element list [word] if and only if word_exists(word).           *)
(***************************************************************************)
C8_ExactIffExists ==
    (Called("search_by_pattern") /\ result.max = 1 /\ "*" \notin Elems(result.word))
    => ((~result.raised /\ result.ret = <<result.word>>)
           <=> word_exists(pronunciations, result.word))

(***************************************************************************)
(* C9.  count_syllables(word) is absent exactly when the lowercase-trimmed *)
(* word is no key of the index; otherwise it is the number of tokens of    *)
(* the first-listed pronunciation that carry a stress digit, whatever the  *)
(* later pronunciations hold.                                              *)
(***************************************************************************)
C9_SyllablesOfFirst ==
    Called("count_syllables")
    => LET w == Normalized(result.word)
       IN  IF w \notin Keys(pronunciations) THEN result.ret = None
           ELSE result.ret = Some(Cardinality(StressedPositions(PronsOf(w)[1])))

\* count_syllables has answered, for a query in upper case or with spaces, on a
\* word whose second pronunciation has another number of stressed tokens
C9_Witness ==
    /\ Called("count_syllables")
    /\ result.word # Normalized(result.word)
    /\ Normalized(result.word) \in Keys(pronunciations)
    /\ Len(PronsOf(Normalized(result.word))) >= 2
    /\ Cardinality(StressedPositions(PronsOf(Normalized(result.word))[2]))
          # Cardinality(StressedPositions(PronsOf(Normalized(result.word))[1]))
    /\ result.ret # None

StressedTokens(p) == SelectSeq(p, CarriesStress)

\* the stress digit of a token that carries stress (its last one)
StressDigitOf(tok) ==
    LET i == CHOOSE i \in DOMAIN tok :
                /\ tok[i] \in {"0", "1", "2"}
                /\ \A j \in DOMAIN tok : j > i => tok[j] \notin {"0", "1", "2"}
    IN  <<tok[i]>>

C11_StressPatternPerStressedToken ==
    (Called("get_stress_pattern") /\ Normalized(result.word) \in Keys(pronunciations))
    => LET w        == Normalized(result.word)
           stressed == StressedTokens(PronsOf(w)[1])
       IN  /\ result.ret # None
           /\ result.ret[1] = Join([j \in DOMAIN stressed |-> StressDigitOf(stressed[j])])
           /\ Some(Len(Split(result.ret[1]))) = count_syllables(pronunciations, w)

(***************************************************************************)
(* C12.  After loading any source text every key of the index is lowercase *)
(* and carries no variant marker: no key ends with an open paren, one or   *)
(* more digits and a close paren, whatever the raw word was.               *)
(***************************************************************************)
\* key ends with "(", one or more digits, ")"
EndsWithVariantMarker(key) ==
    \E m \in DOMAIN key :
       /\ key[m] = "("
       /\ m + 2 <= Len(key)
       /\ key[Len(key)] = ")"
       /\ \A j \in (m + 1)..(Len(key) - 1) : key[j] \in {"0", "1", "2", "3"}

C12_KeysLowercaseUnmarked ==
    pc # "load"
    => \A key \in Keys(pronunciations) :
          /\ key = Lower(key)
          /\ ~EndsWithVariantMarker(key)

(***************************************************************************)
(* C13.  In every reachable state, during load, right after it and after   *)
(* any queries on known and unknown words, every key of the index maps to  *)
(* a non-empty list of pronunciations and every stored pronunciation has   *)
(* at least one token.                                                     *)
(***************************************************************************)
C13_EntriesNonEmpty ==
    \A i \in DOMAIN pronunciations :
       /\ Len(pronunciations[i].prons) >= 1
       /\ \A k \in DOMAIN pronunciations[i].prons :
             Len(pronunciations[i].prons[k]) >= 1

\* the file held a line with a word and no phoneme next to a line that was
\* stored, and a query on a word that is no key has returned
C13_Witness ==
    /\ Called("count_syllables")
    /\ Normalized(result.word) \notin Keys(pronunciations)
    /\ pronunciations # <<>>
    /\ \E i \in DOMAIN file : Len(Split(Strip(BeforeHash(file[i])))) = 1

(***************************************************************************)
(* C14.  The index is immutable after load: no query, on a word that is a  *)
(* key or on one that is not, changes the set of keys or any pronunciation *)
(* list; every step taken once construction has finished leaves the index  *)
(* as it was.                                                              *)
(***************************************************************************)
C14_IndexImmutableAfterLoad ==
    [][pc # "load" => pronunciations' = pronunciations]_vars

\* lookup has returned absent for a word that is no key of a non-empty index
C14_Witness ==
    /\ Called("lookup")
    /\ result.ret = None
    /\ Normalized(result.word) \notin Keys(pronunciations)
    /\ pronunciations # <<>>

(***************************************************************************)
(* C15.  After load the keys are the normalized first tokens of the lines  *)
(* that, cut at the first "#" and trimmed, have at least two tokens, and   *)
(* the pronunciation list of a key k is exactly the sequence, in the order *)
(* of the lines of the file, of the tokens after the first (in their       *)
(* original order and case) of those lines whose first token normalizes to *)
(* k; lines with fewer than two tokens contribute nothing.                 *)
(***************************************************************************)
\* the whitespace-separated tokens of a line of the file, comment cut off
TokensOf(raw) == Split(Strip(BeforeHash(raw)))

\* the key a line with two or more tokens is stored under
KeyOf(raw) == StripVariant(Lower(TokensOf(raw)[1]))

\* the line gives key k a pronunciation
ContributesTo(raw, k) == Len(TokensOf(raw)) >= 2 /\ KeyOf(raw) = k

\* the pronunciations the lines of the file give key k, in file order
PronunciationsInFile(k) ==
    LET lines == SelectSeq(file, LAMBDA raw : ContributesTo(raw, k))
    IN  [j \in DOMAIN lines |-> Tail(TokensOf(lines[j]))]

C15_IndexIsFileInOrder ==
    pc = "ready"
    => /\ Keys(pronunciations)
             = { KeyOf(file[i]) : i \in { j \in DOMAIN file : Len(TokensOf(file[j])) >= 2 } }
       /\ \A k \in Keys(pronunciations) : PronsOf(k) = PronunciationsInFile(k)
       /\ Cardinality(Keys(pronunciations)) = Len(pronunciations)

\* a key has two different pronunciations from two lines of a file that also
\* holds a line with fewer than two tokens
C15_Witness ==
    /\ pc = "ready"
    /\ \E k \in Keys(pronunciations) :
          /\ Len(PronsOf(k)) >= 2
          /\ PronsOf(k)[1] # PronsOf(k)[2]
    /\ \E i \in DOMAIN file : Len(TokensOf(file[i])) < 2

(***************************************************************************)
(* C16.  Rhyme scan order and completeness: for a word A of the index,     *)
(* find_rhymes(A, N) is the first N elements (all of them when there are   *)
(* fewer) of the sequence, in insertion order of the index, of the words   *)
(* other than A that have a pronunciation, first or later, whose rhyme key *)
(* is the rhyme key of A's first pronunciation; each such word once.       *)
(***************************************************************************)
\* key B has a pronunciation whose rhyme key is the (present) key rk
RhymesWith(B, rk) ==
    rk # None /\ \E k \in DOMAIN PronsOf(B) : RhymeKey(PronsOf(B)[k]) = rk

\* the words other than A that rhyme with rk, in insertion order
AllRhymes(A, rk) ==
    LET words == [i \in DOMAIN pronunciations |-> pronunciations[i].word]
    IN  SelectSeq(words, LAMBDA B : B # A /\ RhymesWith(B, rk))

FirstN(seq, n) == SubSeq(seq, 1, Min(n, Len(seq)))

C16_RhymesAreFirstNInOrder ==
    (Called("find_rhymes") /\ Normalized(result.word) \in Keys(pronunciations))
    => LET A == Normalized(result.word)
       IN  result.ret = FirstN(AllRhymes(A, RhymeKey(PronsOf(A)[1])), result.max)

(***************************************************************************)
(* C17.  For a word of the index with n stored pronunciations, lookup      *)
(* returns exactly n records in stored order, the i-th derived from the    *)
(* i-th pronunciation alone: its transcription is that pronunciation's     *)
(* tokens joined by single spaces, its syllable count the number of its    *)
(* tokens that carry stress, and its rhyme list the rhyme match for its    *)
(* rhyme key (at most the default number of words), the normalized word    *)
(* excluded.                                                               *)
(***************************************************************************)
C17_OneRecordPerPronunciation ==
    (Called("lookup") /\ Normalized(result.word) \in Keys(pronunciations))
    => LET w  == Normalized(result.word)
           ps == PronsOf(w)
       IN  /\ result.ret # None
           /\ Len(result.ret[1]) = Len(ps)
           /\ \A i \in DOMAIN ps :
                 /\ result.ret[1][i].arpa = Join(ps[i])
                 /\ result.ret[1][i].syllables = Cardinality(StressedPositions(ps[i]))
                 /\ result.ret[1][i].rhymes
                       = FirstN(AllRhymes(w, RhymeKey(ps[i])), DefaultMaxResults)
                 /\ w \notin Elems(result.ret[1][i].rhymes)

\* lookup has answered a query in upper case or with spaces with two records
\* that differ in syllable count and in rhymes
C17_Witness ==
    /\ Called("lookup")
    /\ result.word # Normalized(result.word)
    /\ result.ret # None
    /\ Len(result.ret[1]) >= 2
    /\ result.ret[1][1].syllables # result.ret[1][2].syllables
    /\ result.ret[1][1].rhymes # result.ret[1][2].rhymes
    /\ result.ret[1][2].rhymes # <<>>
====
